---- MODULE Spec2Model ----
(***************************************************************************)
(* Model of the blog generator: the App component (src/App.tsx), its        *)
(* Gemini service (src/unnamed/part_000) and its types                      *)
(* (src/unnamed/part_001).                                                  *)
(*                                                                          *)
(* Representation.  A JavaScript string is a sequence of one-character      *)
(* strings, so that length, trim, substring and concatenation are           *)
(* computed.  An error message is a sequence of text chunks; the marker     *)
(* 'API key not valid' is one chunk, and String.includes is chunk           *)
(* membership.  An optional value (string | null, string | undefined,       *)
(* BlogPost | null) is a sequence of length 0 or 1.  A text payload is a    *)
(* sequence of lexical tokens: the fence ```, the tag json, a blank, a      *)
(* newline, stray text, or the text of one complete JSON document.          *)
(* The formatted date of a post (toLocaleDateString) is not modelled: no    *)
(* operation reads it.                                                      *)
(***************************************************************************)
EXTENDS Integers, Sequences, FiniteSets, TLC

VARIABLES
    posts,          \* App.tsx:12  BlogPost[], newest first
    selectedPost,   \* App.tsx:13  BlogPost | null
    isLoading,      \* App.tsx:14  welcome generation in progress
    error,          \* App.tsx:15  string | null
    topic,          \* App.tsx:16  the topic input
    isGenerating,   \* App.tsx:17  topic-driven generation in progress
    apiKey,         \* process.env.API_KEY is configured
    mounted,        \* the mount effect (App.tsx:44-46) has run
    tasks,          \* the async invocations suspended at an await
    nextTask,       \* number of async invocations started so far
    now,            \* the reading of Date.now()
    textCalls,      \* upstream generateContent calls issued, per path
    imageCalls,     \* upstream generateImages calls issued
    lastOp          \* the step taken last: the handler, where it was resumed,
                    \* how it went on, the upstream response it consumed and
                    \* what parseGeminiJsonResponse made of it

vars == <<posts, selectedPost, isLoading, error, topic, isGenerating, apiKey,
          mounted, tasks, nextTask, now, textCalls, imageCalls, lastOp>>

-----------------------------------------------------------------------------
(* Bounds of the model.                                                     *)

\* accepted topic-driven submissions in one run
MaxSubmits == 2
\* largest reading of the clock
MaxClock == 1
\* async invocations (welcome and topic-driven) started in one run
MaxTasks == 3

-----------------------------------------------------------------------------
(* Optional values and strings.                                             *)

None == <<>>
Some(x) == <<x>>

Str(s) == [ty |-> "str", s |-> s]
Num(s) == [ty |-> "num", s |-> s]
Absent == [ty |-> "absent", s |-> <<>>]

IsWhitespace(c) == c \in {" ", "\n", "\t"}

\* The elements of s from the first to the last one that is not in blank.
Strip(s, blank) ==
    LET keep == {i \in 1..Len(s) : i \notin blank}
    IN  IF keep = {} THEN <<>>
        ELSE SubSeq(s, CHOOSE i \in keep : \A j \in keep : i <= j,
                       CHOOSE i \in keep : \A j \in keep : i >= j)

\* String.prototype.trim
Trim(s) == Strip(s, {i \in 1..Len(s) : IsWhitespace(s[i])})

\* String.prototype.includes, on messages made of chunks
Includes(msg, chunk) == \E i \in 1..Len(msg) : msg[i] = chunk

\* Truthy as a test for presence only
TruthyWhenPresent(v) == v.ty # "absent"

\* JavaScript truthiness of a JSON field value (part_000:33, :76)
Truthy(v) ==
    CASE v.ty = "absent" -> FALSE
      [] v.ty = "str" -> v.s # <<>>
      [] v.ty = "num" -> v.s # <<"0">>

-----------------------------------------------------------------------------
(* Text payloads and parseGeminiJsonResponse (part_000:9-30).               *)

Fence == [t |-> "fence"]
JsonTag == [t |-> "json"]
Blank == [t |-> "ws"]
Newline == [t |-> "nl"]
Stray == [t |-> "stray"]
Doc(v) == [t |-> "doc", v |-> v]

Obj(title, content, imagePrompt) ==
    [kind |-> "obj", title |-> title, content |-> content, imagePrompt |-> imagePrompt]
JsonNull == [kind |-> "null"]
JsonNumber == [kind |-> "num"]

IsBlankToken(tok) == tok.t \in {"ws", "nl"}

\* trim() of a payload, and the white space JSON.parse skips around a document
TrimTokens(p) == Strip(p, {i \in 1..Len(p) : IsBlankToken(p[i])})

\* FenceMatch for a fenceRegex without the optional tag, /^```\s*\n?(.*?)\n?\s*```$/s
FenceMatchKeepingTag(jsonStr) ==
    IF Len(jsonStr) >= 2 /\ jsonStr[1] = Fence /\ jsonStr[Len(jsonStr)] = Fence
    THEN Some(TrimTokens(SubSeq(jsonStr, 2, Len(jsonStr) - 1)))
    ELSE None

\* fenceRegex = /^```(?:json)?\s*\n?(.*?)\n?\s*```$/s  (part_000:11-12):
\* the match, as None, or Some(capture group 1)
FenceMatch(jsonStr) ==
    IF Len(jsonStr) >= 2 /\ jsonStr[1] = Fence /\ jsonStr[Len(jsonStr)] = Fence
    THEN LET inner == SubSeq(jsonStr, 2, Len(jsonStr) - 1)
             untagged == IF inner # <<>> /\ Head(inner) = JsonTag
                         THEN Tail(inner) ELSE inner
         IN  Some(TrimTokens(untagged))
    ELSE None

\* part_000:10-15
StripFence(responseText) ==
    LET jsonStr == TrimTokens(responseText)
        match == FenceMatch(jsonStr)
    IN  IF match # None /\ match[1] # <<>> THEN TrimTokens(match[1]) ELSE jsonStr

\* A thrown value: whether it is instanceof Error, and its message.
NewError(msg) == [isError |-> TRUE, message |-> msg]
NonError == [isError |-> FALSE, message |-> <<>>]

\* How a call ends: it returns a value or throws.
Return(v) == [out |-> "return", value |-> Some(v), thrown |-> None]
Throw(e) == [out |-> "throw", value |-> None, thrown |-> Some(e)]

\* JSON.parse (part_000:18)
JsonParse(jsonStr) ==
    LET text == TrimTokens(jsonStr)
    IN  IF Len(text) = 1 /\ text[1].t = "doc"
        THEN Return(text[1].v)
        ELSE Throw(NewError(<<"Unexpected token in JSON">>))

StructureErrorMsg == <<"AI response has an invalid data structure for blog content.">>
ParseErrorMsg ==
    <<"Failed to parse AI response for blog content. The response was not valid JSON.">>

\* typeof parsed.title === 'string' && typeof parsed.content === 'string'
HasStringFields(parsed) ==
    /\ parsed.kind = "obj"
    /\ parsed.title.ty = "str"
    /\ parsed.content.ty = "str"

\* the try block, part_000:18-25
ParseTry(jsonStr) ==
    LET r == JsonParse(jsonStr)
    IN  IF r.out = "throw" THEN r
        ELSE IF r.value[1].kind = "null"
             THEN Throw(NewError(<<"Cannot read properties of null">>))
        ELSE IF HasStringFields(r.value[1]) THEN r
        ELSE Throw(NewError(StructureErrorMsg))

\* the catch clause, part_000:26-29: whatever the try block threw
ParseCatch(thrown) == Throw(NewError(ParseErrorMsg))

parseGeminiJsonResponse(responseText) ==
    LET r == ParseTry(StripFence(responseText))
    IN  IF r.out = "throw" THEN ParseCatch(r.thrown[1]) ELSE r

-----------------------------------------------------------------------------
(* The upstream capability, a black box: what its calls can answer.         *)

KeyMarker == "API key not valid"

UpstreamErrors ==
    { NewError(<<"[400] ", KeyMarker, ". Please pass a valid API key.">>),
      NewError(<<"Quota exceeded">>),
      NonError }

\* a settled upstream promise: fulfilled with a value or rejected
Fulfilled(v) == [ok |-> TRUE, value |-> Some(v), thrown |-> None]
Rejected(e) == [ok |-> FALSE, value |-> None, thrown |-> Some(e)]

GoodTitle == <<"T">>
GoodContent == <<"C", "c">>
\* a content one character longer than the excerpt keeps
LongContent ==
    [i \in 1..151 |-> IF i = 1 THEN "a" ELSE IF i = 150 THEN "b"
                      ELSE IF i = 151 THEN "c" ELSE "x"]

TextPayloads ==
    { <<Doc(Obj(Str(GoodTitle), Str(GoodContent), Str(<<"P">>)))>>,
      <<Doc(Obj(Str(GoodTitle), Str(LongContent), Str(<<"P">>)))>>,
      <<Doc(Obj(Str(GoodTitle), Str(GoodContent), Absent))>>,
      <<Doc(Obj(Str(GoodTitle), Str(GoodContent), Str(<<>>)))>>,
      <<Doc(Obj(Str(GoodTitle), Str(GoodContent), Str(<<" ">>)))>>,
      <<Doc(Obj(Str(<<>>), Str(<<>>), Absent))>>,
      <<Doc(Obj(Absent, Str(GoodContent), Str(<<"P">>)))>>,
      <<Doc(Obj(Str(GoodTitle), Num(<<"5">>), Absent))>>,
      <<Doc(JsonNull)>>,
      <<Doc(JsonNumber)>>,
      <<Stray>>,
      <<>>,
      <<Fence, JsonTag, Newline,
        Doc(Obj(Str(GoodTitle), Str(GoodContent), Absent)), Newline, Fence>> }

TextResponses ==
    {Fulfilled(p) : p \in TextPayloads} \cup {Rejected(e) : e \in UpstreamErrors}

\* response.generatedImages: absent, or a list of images whose imageBytes
\* is absent or a base64 string
ImageLists ==
    { None,
      Some(<<>>),
      Some(<<None>>),
      Some(<<Some(<<>>)>>),
      Some(<<Some(<<"X", "Y", "Z">>)>>) }

ImageResponses ==
    {Fulfilled(l) : l \in ImageLists} \cup {Rejected(e) : e \in UpstreamErrors}

Topics == {<<>>, <<" ">>, <<"A", "I">>}

-----------------------------------------------------------------------------
(* The service, part_000:32-118.                                            *)

ImageKeyErrorMsg ==
    <<"Invalid API Key for image generation. Please ensure your Gemini API key is correctly configured.">>
KeyErrorMsg ==
    <<"Invalid API Key. Please ensure your Gemini API key is correctly configured.">>
UnknownContentErrorMsg ==
    <<"An unknown error occurred while generating blog post content.">>
UnknownWelcomeErrorMsg ==
    <<"An unknown error occurred while generating the welcome post.">>

\* part_000:33: generateImage goes on to the upstream call
ImagePromptGiven(prompt) == Truthy(prompt)

\* part_000:45
DataUri(base64ImageBytes) == <<"data:image/jpeg;base64,">> \o base64ImageBytes

\* ImageFromResponse without the test of imageBytes
ImageFromResponseAnyBytes(generatedImages) ==
    IF /\ generatedImages # None
       /\ Len(generatedImages[1]) > 0
       /\ generatedImages[1][1] # None
    THEN Some(DataUri(generatedImages[1][1][1]))
    ELSE None

\* part_000:43-48: the image reference taken from a fulfilled image call
ImageFromResponse(generatedImages) ==
    IF /\ generatedImages # None
       /\ Len(generatedImages[1]) > 0
       /\ generatedImages[1][1] # None
       /\ generatedImages[1][1][1] # <<>>
    THEN Some(DataUri(generatedImages[1][1][1]))
    ELSE None

\* ImageCatch rethrowing whatever the image call threw
ImageCatchRethrowing(e) == Throw(e)

\* part_000:49-57: the catch clause of generateImage
ImageCatch(e) ==
    IF e.isError /\ Includes(e.message, KeyMarker)
    THEN Throw(NewError(ImageKeyErrorMsg))
    ELSE Return(None)

\* generateImage once its upstream call has settled, part_000:43-57
generateImageSettled(response) ==
    IF response.ok THEN Return(ImageFromResponse(response.value[1]))
    ELSE ImageCatch(response.thrown[1])

\* ContentCatch without the test for the invalid-credential marker
ContentCatchNoKeyTest(e) ==
    IF e.isError
    THEN Throw(NewError(<<"Gemini API error: ">> \o e.message))
    ELSE Throw(NewError(UnknownContentErrorMsg))

\* part_000:84-93: the catch clause of generateBlogPostContent
ContentCatch(e) ==
    IF e.isError /\ Includes(e.message, KeyMarker)
    THEN Throw(NewError(KeyErrorMsg))
    ELSE IF e.isError
    THEN Throw(NewError(<<"Gemini API error: ">> \o e.message))
    ELSE Throw(NewError(UnknownContentErrorMsg))

\* part_000:82: { ...blogContent, imageUrl }
WithImage(blogContent, imageUrl) ==
    [title |-> blogContent.title.s, content |-> blogContent.content.s,
     imageUrl |-> imageUrl]

\* part_000:76: the content carries an image prompt
WantsImage(blogContent) == Truthy(blogContent.imagePrompt)

\* generateBlogPostContentText asking for an image for every parsed content
generateBlogPostContentTextAlwaysImage(response) ==
    IF ~response.ok THEN ContentCatch(response.thrown[1])
    ELSE LET r == parseGeminiJsonResponse(response.value[1])
         IN  IF r.out = "throw" THEN ContentCatch(r.thrown[1])
             ELSE [out |-> "await", value |-> r.value, thrown |-> None]

\* generateBlogPostContent from the text call's settling to its next await
\* or its end, part_000:73-93.  out = "await": generateImage was called
\* and its upstream call issued, value is blogContent.
generateBlogPostContentText(response) ==
    IF ~response.ok THEN ContentCatch(response.thrown[1])
    ELSE LET r == parseGeminiJsonResponse(response.value[1])
         IN  IF r.out = "throw" THEN ContentCatch(r.thrown[1])
             ELSE IF WantsImage(r.value[1]) /\ ImagePromptGiven(r.value[1].imagePrompt)
                  THEN [out |-> "await", value |-> r.value, thrown |-> None]
             ELSE Return(WithImage(r.value[1], None))

\* generateBlogPostContent from the image call's settling to its end,
\* part_000:77-93
generateBlogPostContentImage(blogContent, response) ==
    LET r == generateImageSettled(response)
    IN  IF r.out = "throw" THEN ContentCatch(r.thrown[1])
        ELSE Return(WithImage(blogContent, r.value[1]))

\* part_000:111-117: the catch clause of generateInitialWelcomePost
WelcomeCatch(e) ==
    IF e.isError
    THEN Throw(NewError(<<"Failed to generate welcome post: ">> \o e.message))
    ELSE Throw(NewError(UnknownWelcomeErrorMsg))

\* generateInitialWelcomePost once its text call has settled, part_000:110-117
generateInitialWelcomePostText(response) ==
    IF ~response.ok THEN WelcomeCatch(response.thrown[1])
    ELSE LET r == parseGeminiJsonResponse(response.value[1])
         IN  IF r.out = "throw" THEN WelcomeCatch(r.thrown[1])
             ELSE r

-----------------------------------------------------------------------------
(* The App component, App.tsx:11-151.                                       *)

ExcerptLen == 150

\* Excerpt without the cut at 150 characters
ExcerptUncut(content) == content \o <<".", ".", ".">>

\* App.tsx:29, :60: data.content.substring(0, 150) + "..."
Excerpt(content) ==
    SubSeq(content, 1, IF Len(content) < ExcerptLen THEN Len(content) ELSE ExcerptLen)
        \o <<".", ".", ".">>

\* App.tsx:25-32: the welcome post, built at clock reading ms
WelcomePost(data, ms) ==
    [id |-> [prefix |-> "initial-", ms |-> ms],
     title |-> data.title.s,
     content |-> data.content.s,
     excerpt |-> Excerpt(data.content.s),
     imageUrl |-> None]

\* App.tsx:56-63: the post of a topic-driven generation
TopicPost(data, ms) ==
    [id |-> [prefix |-> "", ms |-> ms],
     title |-> data.title,
     content |-> data.content,
     excerpt |-> Excerpt(data.content),
     imageUrl |-> data.imageUrl]

\* App.tsx:33: setPosts([newPost])
WelcomePosts(newPost, prevPosts) == <<newPost>>

\* PrependPost as a plain setPosts([newPost])
PrependPostReplacing(newPost, prevPosts) == <<newPost>>

\* App.tsx:64: setPosts(prevPosts => [newPost, ...prevPosts])
PrependPost(newPost, prevPosts) == <<newPost>> \o prevPosts

\* WelcomeWanted without its test of the API key
WelcomeWantedWithoutKey(ps, key) == Len(ps) = 0

\* App.tsx:20: the condition under which loadInitialPost does anything
WelcomeWanted(ps, key) == Len(ps) = 0 /\ key

\* SubmitIgnored without its in-flight test
SubmitIgnoredBlankOnly(tp, generating) == Trim(tp) = <<>>

\* App.tsx:50: the condition under which handleGeneratePost returns at once
SubmitIgnored(tp, generating) == Trim(tp) = <<>> \/ generating

\* App.tsx:67-71: the message handleGeneratePost shows for a thrown value
ShownError(e) ==
    IF e.isError THEN e.message
    ELSE <<"An unknown error occurred while generating the post.">>

\* FormRendered without the welcome spinner's early return
FormRenderedWhileLoading == selectedPost = None

\* App.tsx:85-102: the form is rendered (not the welcome spinner, not a post view)
FormRendered == ~(isLoading /\ Len(posts) = 0) /\ selectedPost = None

\* App.tsx:85-99, :138-141: the post cards are rendered
ListRendered == FormRendered

\* an async invocation suspended at an await
Task(id, kind, pc, tp, content, before) ==
    [id |-> id, kind |-> kind, pc |-> pc, topic |-> tp, content |-> content,
     postsBefore |-> before]

Op(name, at, outcome, input, parsed) ==
    [name |-> name, at |-> at, outcome |-> outcome, input |-> input, parsed |-> parsed]

\* a step of the user interface, with no upstream response
UiOp(name, outcome) == Op(name, "call", outcome, None, None)

\* what parseGeminiJsonResponse made of a settled text call, if it ran
ParsedOf(response) ==
    IF response.ok THEN Some(parseGeminiJsonResponse(response.value[1])) ELSE None

Init ==
    /\ posts = <<>>
    /\ selectedPost = None
    /\ isLoading = FALSE
    /\ error = None
    /\ topic = <<>>
    /\ isGenerating = FALSE
    /\ apiKey \in BOOLEAN
    /\ mounted = FALSE
    /\ tasks = {}
    /\ nextTask = 0
    /\ now = 0
    /\ textCalls = [welcome |-> 0, topic |-> 0]
    /\ imageCalls = 0
    /\ lastOp = UiOp("init", "")

\* The posts that loadInitialPost reads: the callback is memoized with no
\* dependencies (App.tsx:19, :42), so it is the callback of the first
\* render and reads that render's posts, the initial state (App.tsx:12).
ClosurePosts == <<>>

\* A call of loadInitialPost, up to its await (App.tsx:19-24).
LoadInitialPostCall ==
    /\ IF WelcomeWanted(ClosurePosts, apiKey)
       THEN /\ isLoading' = TRUE
            /\ error' = None
            /\ tasks' = tasks \cup {Task(nextTask, "welcome", "text", <<>>, None, posts)}
            /\ nextTask' = nextTask + 1
            /\ textCalls' = [textCalls EXCEPT !.welcome = @ + 1]
            /\ lastOp' = UiOp("loadInitialPost", "started")
       ELSE /\ lastOp' = UiOp("loadInitialPost", "skipped")
            /\ UNCHANGED <<isLoading, error, tasks, nextTask, textCalls>>
    /\ UNCHANGED <<posts, selectedPost, topic, isGenerating, apiKey, now,
                   imageCalls>>

\* The mount effect calls loadInitialPost (App.tsx:44-46).
LoadInitialPost ==
    /\ ~mounted
    /\ mounted' = TRUE
    /\ LoadInitialPostCall

\* loadInitialPost is called again after the mount: the effect of
\* App.tsx:44-46 is run again (as a development build does), or the
\* callback is called by other code.
LoadInitialPostAgain ==
    /\ mounted
    /\ nextTask < MaxTasks
    /\ LoadInitialPostCall
    /\ UNCHANGED mounted

\* loadInitialPost ends with the value data (App.tsx:25-33, :37-39).
WelcomeSucceeds(data, op) ==
    \E ms \in now..MaxClock :
        /\ now' = ms
        /\ posts' = WelcomePosts(WelcomePost(data, ms), posts)
        /\ isLoading' = FALSE
        /\ lastOp' = [op EXCEPT !.outcome = "succeeded"]
        /\ UNCHANGED error

\* WelcomeFails reporting the error as handleGeneratePost does
WelcomeFailsShowingError(e, op) ==
    /\ error' = Some(ShownError(e))
    /\ isLoading' = FALSE
    /\ lastOp' = [op EXCEPT !.outcome = "failed"]
    /\ UNCHANGED <<posts, now>>

\* loadInitialPost ends with the thrown value e (App.tsx:34-39).
WelcomeFails(e, op) ==
    /\ isLoading' = FALSE
    /\ lastOp' = [op EXCEPT !.outcome = "failed"]
    /\ UNCHANGED <<posts, now, error>>

\* loadInitialPost resumes when its text call settles (App.tsx:24-39).
LoadInitialPostResume(t, response) ==
    /\ t \in tasks /\ t.kind = "welcome" /\ t.pc = "text"
    /\ LET r == generateInitialWelcomePostText(response)
           op == Op("loadInitialPost", "text", "", Some(response), ParsedOf(response))
       IN  IF r.out = "return"
           THEN WelcomeSucceeds(r.value[1], op)
           ELSE WelcomeFails(r.thrown[1], op)
    /\ tasks' = tasks \ {t}
    /\ UNCHANGED <<selectedPost, topic, isGenerating, apiKey, mounted,
                   nextTask, textCalls, imageCalls>>

\* The form's submit event: handleGeneratePost runs to its await
\* (App.tsx:48-55, part_000:60-71).
HandleGeneratePost ==
    /\ mounted
    /\ FormRendered
    /\ IF SubmitIgnored(topic, isGenerating)
       THEN /\ lastOp' = UiOp("handleGeneratePost", "ignored")
            /\ UNCHANGED <<isGenerating, error, tasks, nextTask, textCalls>>
       ELSE /\ textCalls.topic < MaxSubmits
            /\ nextTask < MaxTasks
            /\ isGenerating' = TRUE
            /\ error' = None
            /\ tasks' = tasks \cup {Task(nextTask, "topic", "text", topic, None, posts)}
            /\ nextTask' = nextTask + 1
            /\ textCalls' = [textCalls EXCEPT !.topic = @ + 1]
            /\ lastOp' = UiOp("handleGeneratePost", "started")
    /\ UNCHANGED <<posts, selectedPost, isLoading, topic, apiKey, mounted, now,
                   imageCalls>>

\* GenerateSucceeds without the reset of the topic input
GenerateSucceedsKeepingTopic(t, data, op) ==
    \E ms \in now..MaxClock :
        /\ now' = ms
        /\ posts' = PrependPost(TopicPost(data, ms), posts)
        /\ isGenerating' = FALSE
        /\ tasks' = tasks \ {t}
        /\ lastOp' = [op EXCEPT !.outcome = "succeeded"]
        /\ UNCHANGED <<error, topic>>

\* handleGeneratePost ends with the value data (App.tsx:56-65, :72-74).
GenerateSucceeds(t, data, op) ==
    \E ms \in now..MaxClock :
        /\ now' = ms
        /\ posts' = PrependPost(TopicPost(data, ms), posts)
        /\ topic' = <<>>
        /\ isGenerating' = FALSE
        /\ tasks' = tasks \ {t}
        /\ lastOp' = [op EXCEPT !.outcome = "succeeded"]
        /\ UNCHANGED error

\* GenerateFails emptying the list as it reports the error
GenerateFailsClearingPosts(t, e, op) ==
    /\ error' = Some(ShownError(e))
    /\ isGenerating' = FALSE
    /\ tasks' = tasks \ {t}
    /\ lastOp' = [op EXCEPT !.outcome = "failed"]
    /\ posts' = <<>>
    /\ UNCHANGED <<topic, now>>

\* GenerateFails without the finally clause
GenerateFailsKeepingFlag(t, e, op) ==
    /\ error' = Some(ShownError(e))
    /\ tasks' = tasks \ {t}
    /\ lastOp' = [op EXCEPT !.outcome = "failed"]
    /\ UNCHANGED <<posts, topic, now, isGenerating>>

\* handleGeneratePost ends with the thrown value e (App.tsx:66-74).
GenerateFails(t, e, op) ==
    /\ error' = Some(ShownError(e))
    /\ isGenerating' = FALSE
    /\ tasks' = tasks \ {t}
    /\ lastOp' = [op EXCEPT !.outcome = "failed"]
    /\ UNCHANGED <<posts, topic, now>>

\* The text call of a topic-driven generation settles (part_000:73-93,
\* App.tsx:55-74).
GenerateTextSettles(t, response) ==
    /\ t \in tasks /\ t.kind = "topic" /\ t.pc = "text"
    /\ LET r == generateBlogPostContentText(response)
           op == Op("handleGeneratePost", "text", "", Some(response), ParsedOf(response))
       IN  CASE r.out = "await" ->
                  /\ tasks' = (tasks \ {t}) \cup
                        {Task(t.id, "topic", "image", t.topic, r.value, t.postsBefore)}
                  /\ imageCalls' = imageCalls + 1
                  /\ lastOp' = [op EXCEPT !.outcome = "awaitImage"]
                  /\ UNCHANGED <<posts, topic, isGenerating, error, now>>
             [] r.out = "return" ->
                  /\ GenerateSucceeds(t, r.value[1], op)
                  /\ UNCHANGED imageCalls
             [] r.out = "throw" ->
                  /\ GenerateFails(t, r.thrown[1], op)
                  /\ UNCHANGED imageCalls
    /\ UNCHANGED <<selectedPost, isLoading, apiKey, mounted, nextTask, textCalls>>

\* The image call of a topic-driven generation settles (part_000:43-57,
\* :77-93, App.tsx:55-74).
GenerateImageSettles(t, response) ==
    /\ t \in tasks /\ t.kind = "topic" /\ t.pc = "image"
    /\ LET r == generateBlogPostContentImage(t.content[1], response)
           op == Op("handleGeneratePost", "image", "", Some(response), None)
       IN  IF r.out = "return"
           THEN GenerateSucceeds(t, r.value[1], op)
           ELSE GenerateFails(t, r.thrown[1], op)
    /\ UNCHANGED <<selectedPost, isLoading, apiKey, mounted, nextTask, textCalls,
                   imageCalls>>

\* App.tsx:108: the topic input changes (the input is disabled while
\* isGenerating, App.tsx:111)
SetTopic(tp) ==
    /\ mounted
    /\ FormRendered
    /\ ~isGenerating
    /\ tp # topic
    /\ topic' = tp
    /\ lastOp' = UiOp("setTopic", "")
    /\ UNCHANGED <<posts, selectedPost, isLoading, error, isGenerating, apiKey,
                   mounted, tasks, nextTask, now, textCalls, imageCalls>>

\* App.tsx:77-79, a click on a rendered card
HandleSelectPost(i) ==
    /\ ListRendered
    /\ i \in 1..Len(posts)
    /\ selectedPost' = Some(posts[i])
    /\ lastOp' = UiOp("handleSelectPost", "")
    /\ UNCHANGED <<posts, isLoading, error, topic, isGenerating, apiKey, mounted,
                   tasks, nextTask, now, textCalls, imageCalls>>

\* App.tsx:81-83, the back button of the post view
HandleGoBackToList ==
    /\ selectedPost # None
    /\ selectedPost' = None
    /\ lastOp' = UiOp("handleGoBackToList", "")
    /\ UNCHANGED <<posts, isLoading, error, topic, isGenerating, apiKey, mounted,
                   tasks, nextTask, now, textCalls, imageCalls>>

\* App.tsx:126: the error banner's close button
CloseError ==
    /\ FormRendered
    /\ error # None /\ ~isGenerating
    /\ error' = None
    /\ lastOp' = UiOp("closeError", "")
    /\ UNCHANGED <<posts, selectedPost, isLoading, topic, isGenerating, apiKey,
                   mounted, tasks, nextTask, now, textCalls, imageCalls>>

Next ==
    \/ LoadInitialPost
    \/ \E t \in tasks, r \in TextResponses : LoadInitialPostResume(t, r)
    \/ HandleGeneratePost
    \/ \E t \in tasks, r \in TextResponses : GenerateTextSettles(t, r)
    \/ \E t \in tasks, r \in ImageResponses : GenerateImageSettles(t, r)
    \/ \E tp \in Topics : SetTopic(tp)
    \/ \E i \in 1..Len(posts) : HandleSelectPost(i)
    \/ HandleGoBackToList
    \/ CloseError

Spec == Init /\ [][Next]_vars

\* The program with further calls of loadInitialPost.
RetriggerNext == Next \/ LoadInitialPostAgain

RetriggerSpec == Init /\ [][RetriggerNext]_vars

\* The upstream calls answer: a suspended invocation is eventually resumed.
FairSpec ==
    /\ Spec
    /\ WF_vars(\E t \in tasks, r \in TextResponses : LoadInitialPostResume(t, r))
    /\ WF_vars(\E t \in tasks, r \in TextResponses : GenerateTextSettles(t, r))
    /\ WF_vars(\E t \in tasks, r \in ImageResponses : GenerateImageSettles(t, r))

-----------------------------------------------------------------------------
(* Properties.                                                              *)

TopicTasks == {t \in tasks : t.kind = "topic"}
WelcomeTasks == {t \in tasks : t.kind = "welcome"}

\* the step is a run of handleGeneratePost up to its return or first await
IsSubmitStep ==
    /\ lastOp'.name = "handleGeneratePost"
    /\ lastOp'.outcome \in {"ignored", "started"}

\* C1: at most one topic-driven generation is outstanding, and a submit
\* that arrives while one is outstanding issues no upstream call and leaves
\* the post list, the in-flight flag, the error and the topic unchanged.
C1_SingleFlight ==
    [][ /\ Cardinality(TopicTasks') <= 1
        /\ (TopicTasks # {} /\ IsSubmitStep) =>
              UNCHANGED <<posts, isGenerating, error, topic, textCalls,
                          imageCalls, tasks>> ]_vars

\* a submit of a non-blank topic was ignored while a generation is outstanding
C1_Witness ==
    /\ lastOp = UiOp("handleGeneratePost", "ignored")
    /\ TopicTasks # {}
    /\ Trim(topic) # <<>>

\* C2: when a topic-driven generation fails in the content generator, the
\* post list is the list from before the submission and the error state is
\* a non-empty message.
C2_FailureKeepsList ==
    [][ (lastOp'.name = "handleGeneratePost" /\ lastOp'.at = "text"
                /\ lastOp'.outcome = "failed") =>
          \A t \in tasks \ tasks' :
                  /\ posts' = t.postsBefore
                  /\ error' # None
                  /\ error'[1] # <<>> ]_vars

\* a generation has failed with a post in the list
C2_Witness ==
    /\ lastOp.name = "handleGeneratePost" /\ lastOp.at = "text"
    /\ lastOp.outcome = "failed"
    /\ posts # <<>>
    /\ error # None

\* C3: isGenerating is true exactly while a topic-driven generation is
\* outstanding, and when the upstream calls answer it becomes false again.
C3_FlagCleared ==
    /\ [](isGenerating <=> TopicTasks # {})
    /\ (isGenerating ~> ~isGenerating)

\* a second submit has been accepted after a failed first one
C3_Witness ==
    /\ isGenerating
    /\ textCalls.topic = 2
    /\ error = None
    /\ posts = <<>>

\* the step resumes handleGeneratePost at the settling of its image call
IsImageStep == lastOp'.name = "handleGeneratePost" /\ lastOp'.at = "image"

\* the step resumes handleGeneratePost at the settling of its text call
IsTextStep == lastOp'.name = "handleGeneratePost" /\ lastOp'.at = "text"

\* the thrown value carries the invalid-credential marker
IsKeyError(e) == e.isError /\ Includes(e.message, KeyMarker)

\* an image response that is no image: rejected for another reason than the
\* credential, or fulfilled without image bytes
ImageUnavailable(response) ==
    IF response.ok
    THEN \/ response.value[1] = None
         \/ response.value[1][1] = <<>>
         \/ response.value[1][1][1] = None
         \/ response.value[1][1][1][1] = <<>>
    ELSE ~IsKeyError(response.thrown[1])

\* C4: when the text call gave an image prompt and the image call fails
\* for another reason than an invalid credential, or returns no bytes, the
\* generation succeeds: one post without image reference is prepended and
\* no error is shown.
C4_ImageBestEffort ==
    [][ (IsImageStep /\ ImageUnavailable(lastOp'.input[1])) =>
          /\ lastOp'.outcome = "succeeded"
          /\ Len(posts') = Len(posts) + 1
          /\ Tail(posts') = posts
          /\ Head(posts').imageUrl = None
          /\ error' = None
          /\ ~isGenerating' ]_vars

\* a post without image was added after the image call was rejected
C4_Witness ==
    /\ lastOp.name = "handleGeneratePost" /\ lastOp.at = "image"
    /\ ~lastOp.input[1].ok
    /\ lastOp.outcome = "succeeded"
    /\ posts # <<>> /\ Head(posts).imageUrl = None
    /\ error = None

\* C5: an invalid-credential failure of the image call adds no post and
\* shows the very error that the same failure of the text call shows.
C5_ImageKeyErrorAsTextKeyError ==
    (/\ lastOp.name = "handleGeneratePost" /\ lastOp.at = "image"
     /\ ~lastOp.input[1].ok
     /\ IsKeyError(lastOp.input[1].thrown[1]))
    => /\ lastOp.outcome = "failed"
       /\ error = Some(ShownError(
              generateBlogPostContentText(lastOp.input[1]).thrown[1]))

\* the payload is valid JSON (fence stripped)
ValidJson(payload) == JsonParse(StripFence(payload)).out = "return"
JsonOf(payload) == JsonParse(StripFence(payload)).value[1]

\* C6: the parser returns the object of a payload that is valid JSON with
\* string title and content, fails with the structural error on valid JSON
\* without them, and fails with the parse error only on invalid JSON.
C6_ParserErrorsDistinct ==
    lastOp.parsed # None =>
        LET payload == lastOp.input[1].value[1]
            r == lastOp.parsed[1]
        IN  IF ~ValidJson(payload)
            THEN r.out = "throw" /\ r.thrown[1].message = ParseErrorMsg
            ELSE IF /\ JsonOf(payload).kind = "obj"
                    /\ JsonOf(payload).title.ty = "str"
                    /\ JsonOf(payload).content.ty = "str"
            THEN r = Return(JsonOf(payload))
            ELSE r.out = "throw" /\ r.thrown[1].message = StructureErrorMsg

\* C7: the post list only grows by prepending: a step leaves it alone or
\* puts one new post before the posts it held, and a successful generation
\* does the latter.
C7_PrependOnly ==
    [][ /\ posts' = posts \/ (posts' # <<>> /\ Tail(posts') = posts)
        /\ lastOp'.outcome = "succeeded" =>
              (posts' # <<>> /\ Tail(posts') = posts) ]_vars

\* a topic post stands before an older topic post and the welcome post
C7_Witness ==
    /\ Len(posts) = 3
    /\ posts[3].id.prefix = "initial-"
    /\ lastOp.outcome = "succeeded"

\* C8: every post in the list has a non-empty title and a non-empty body.
C8_PostsNonEmpty ==
    \A i \in 1..Len(posts) : posts[i].title # <<>> /\ posts[i].content # <<>>

\* the image prompt is a string that is empty or only white space
BlankPrompt(v) == v.ty = "str" /\ Trim(v.s) = <<>>

\* C9 as stated: for an empty or whitespace-only image prompt no upstream
\* image call is made, by generateImage or within generateBlogPostContent.
C9_BlankPromptNoCall ==
    \A t \in TopicTasks :
        t.pc = "image" => ~BlankPrompt(t.content[1].imagePrompt)

\* C9 amended: for an empty image prompt generateImage makes no upstream
\* call, and a text response carrying one leads to no image call and to a
\* post without image reference.
C9_EmptyPromptNoCall ==
    [][ /\ ~ImagePromptGiven(Str(<<>>))
        /\ (/\ IsTextStep
            /\ lastOp'.parsed # None
            /\ lastOp'.parsed[1].out = "return"
            /\ lastOp'.parsed[1].value[1].imagePrompt = Str(<<>>))
           => /\ imageCalls' = imageCalls
              /\ lastOp'.outcome = "succeeded"
              /\ Head(posts').imageUrl = None ]_vars

\* a text response with an empty image prompt has become a post
C9_Witness ==
    /\ lastOp.name = "handleGeneratePost" /\ lastOp.at = "text"
    /\ lastOp.parsed # None
    /\ lastOp.parsed[1].out = "return"
    /\ lastOp.parsed[1].value[1].imagePrompt = Str(<<>>)
    /\ lastOp.outcome = "succeeded"
    /\ imageCalls = 0

\* C10: without an API key no welcome text call is made and isLoading is
\* never set, while a submit of a non-blank topic still issues its text call.
C10_NoKeyNoWelcome ==
    [][ ~apiKey =>
          /\ textCalls'.welcome = 0
          /\ ~isLoading'
          /\ WelcomeTasks' = {}
          /\ (IsSubmitStep /\ Trim(topic) # <<>> /\ ~isGenerating) =>
                /\ textCalls'.topic = textCalls.topic + 1
                /\ isGenerating' ]_vars

\* without an API key, a topic-driven generation is outstanding
C10_Witness ==
    /\ ~apiKey
    /\ mounted
    /\ lastOp = UiOp("handleGeneratePost", "started")
    /\ textCalls.topic = 1
    /\ TopicTasks # {}

\* the step resumes loadInitialPost at the settling of its text call
IsWelcomeStep == lastOp'.name = "loadInitialPost" /\ lastOp'.at = "text"

\* the text call was rejected, or its payload was rejected by the parser
TextFailed(op) ==
    \/ ~op.input[1].ok
    \/ op.parsed # None /\ op.parsed[1].out = "throw"

\* C11: a failure of the welcome generation is silent: the error state is
\* still null, no post is added, and the loading flag is cleared so that
\* the form is rendered.
C11_WelcomeFailureSilent ==
    [][ (IsWelcomeStep /\ TextFailed(lastOp')) =>
          /\ lastOp'.outcome = "failed"
          /\ error' = None
          /\ posts' = posts
          /\ ~isLoading'
          /\ FormRendered' ]_vars

\* a welcome generation has failed on a payload the parser rejected
C11_Witness ==
    /\ lastOp.name = "loadInitialPost" /\ lastOp.at = "text"
    /\ lastOp.input[1].ok
    /\ lastOp.parsed[1].out = "throw"
    /\ error = None /\ posts = <<>> /\ ~isLoading

\* the bytes of the first image of a fulfilled image call, or None
BytesOf(response) ==
    IF /\ response.ok
       /\ response.value[1] # None
       /\ response.value[1][1] # <<>>
       /\ response.value[1][1][1] # None
       /\ response.value[1][1][1][1] # <<>>
    THEN Some(response.value[1][1][1][1])
    ELSE None

\* C12: a post carries an image reference only if the image call of its
\* generation was fulfilled with image bytes; welcome posts, posts without
\* image prompt and posts whose image call failed carry none.
C12_ImageOnlyIfGenerated ==
    [][ /\ \A i \in 1..Len(posts') :
              posts'[i].id.prefix = "initial-" => posts'[i].imageUrl = None
        /\ (posts' # posts /\ posts' # <<>> /\ Head(posts').imageUrl # None) =>
              /\ IsImageStep
              /\ BytesOf(lastOp'.input[1]) # None
              /\ Head(posts').imageUrl =
                     Some(<<"data:image/jpeg;base64,">> \o BytesOf(lastOp'.input[1])[1])
        /\ (posts' = posts \/ Tail(posts') = posts) ]_vars

\* a post with an image stands before a post without one
C12_Witness ==
    /\ Len(posts) >= 2
    /\ posts[1].imageUrl # None
    /\ posts[2].imageUrl = None

\* C13: no two posts in the list have the same identifier, whatever the
\* (non-decreasing) clock readings at which the generations complete.
C13_UniqueIds ==
    \A i, j \in 1..Len(posts) : posts[i].id = posts[j].id => i = j

\* the first n characters of s
FirstChars(s, n) == [i \in 1..(IF Len(s) < n THEN Len(s) ELSE n) |-> s[i]]

\* the excerpt the specification gives a body
ExcerptOf(body) == FirstChars(body, 150) \o <<".", ".", ".">>

\* C14: a successful topic-driven generation whose text response parses to
\* title T, content C and an image prompt and whose image call returns
\* bytes B puts at the head of the list a post with title T, body C, the
\* first 150 characters of C followed by "..." as excerpt and the JPEG data
\* URI of B as image reference; every post's excerpt is that function of
\* its body.
C14_PostFromResponses ==
    [][ /\ posts' # posts =>
              \A i \in 1..Len(posts') :
                  posts'[i].excerpt = ExcerptOf(posts'[i].content)
        /\ (IsImageStep /\ BytesOf(lastOp'.input[1]) # None) =>
              \A t \in tasks \ tasks' :
                  /\ lastOp'.outcome = "succeeded"
                  /\ Tail(posts') = posts
                  /\ Head(posts').title = t.content[1].title.s
                  /\ Head(posts').content = t.content[1].content.s
                  /\ Head(posts').excerpt = ExcerptOf(t.content[1].content.s)
                  /\ Head(posts').imageUrl =
                         Some(<<"data:image/jpeg;base64,">> \o BytesOf(lastOp'.input[1])[1]) ]_vars

\* a post with image whose body is longer than its excerpt keeps
C14_Witness ==
    /\ lastOp.name = "handleGeneratePost" /\ lastOp.at = "image"
    /\ lastOp.outcome = "succeeded"
    /\ posts # <<>>
    /\ Len(Head(posts).content) = 151
    /\ Len(Head(posts).excerpt) = 153
    /\ Head(posts).excerpt[150] = "b"
    /\ Head(posts).imageUrl = Some(<<"data:image/jpeg;base64,", "X", "Y", "Z">>)

-----------------------------------------------------------------------------
(* parseGeminiJsonResponse on its own: a payload, bare and in a fence.      *)

\* the payloads tried: those of the text call, and payloads that begin
\* with the word json, are fenced themselves or carry white space
ParserPayloads ==
    TextPayloads \cup
    { <<JsonTag, Doc(Obj(Str(GoodTitle), Str(GoodContent), Absent))>>,
      <<JsonTag>>,
      <<Fence, Doc(Obj(Str(GoodTitle), Str(GoodContent), Absent)), Fence>>,
      <<Fence, Fence>>,
      <<Blank, Doc(Obj(Str(GoodTitle), Str(GoodContent), Str(<<"P">>))), Newline>>,
      <<Blank, JsonTag, Doc(JsonNumber)>>,
      <<Newline>> }

\* the ways to put a payload in a fenced block: white space before the
\* fence, the tag, white space after the opening fence, before the closing
\* fence, and after it
WrapStyles ==
    [lead : {<<>>, <<Blank>>},
     tag : {<<>>, <<JsonTag>>},
     open : {<<>>, <<Newline>>, <<Blank, Newline>>},
     close : {<<>>, <<Newline>>},
     trail : {<<>>, <<Newline>>}]

Wrap(payload, w) ==
    w.lead \o <<Fence>> \o w.tag \o w.open \o payload \o w.close \o <<Fence>> \o w.trail

\* parseGeminiJsonResponse is applied, once, to a payload and to the payload
\* in a fence (part_000:9-30); lastOp records both inputs and both results.
ParsePayload(payload, w) ==
    /\ lastOp.name = "init"
    /\ lastOp' = Op("parseGeminiJsonResponse", "wrapped", "",
                    <<payload, Wrap(payload, w), w>>,
                    <<parseGeminiJsonResponse(payload),
                      parseGeminiJsonResponse(Wrap(payload, w))>>)
    /\ UNCHANGED <<posts, selectedPost, isLoading, error, topic, isGenerating,
                   apiKey, mounted, tasks, nextTask, now, textCalls, imageCalls>>

ParserNext == \E payload \in ParserPayloads, w \in WrapStyles : ParsePayload(payload, w)

ParserSpec == Init /\ [][ParserNext]_vars

\* the payload is itself wrapped in a fence
IsFenced(payload) ==
    LET text == TrimTokens(payload)
    IN  Len(text) >= 2 /\ text[1] = Fence /\ text[Len(text)] = Fence

\* the payload begins with the word json and the fence put around it has
\* neither a tag nor white space after its opening
TagTaken(payload, w) ==
    payload # <<>> /\ Head(payload) = JsonTag /\ w.tag = <<>> /\ w.open = <<>>

\* C15 as stated: parsing a payload in a fenced block gives the outcome of
\* parsing the payload itself.
C15_FenceTransparent ==
    lastOp.name = "parseGeminiJsonResponse" => lastOp.parsed[2] = lastOp.parsed[1]

\* C15 amended: the same, for payloads that are not fenced themselves and
\* do not lose a leading word json to an untagged fence.
C15_FenceTransparentForBare ==
    (/\ lastOp.name = "parseGeminiJsonResponse"
     /\ ~IsFenced(lastOp.input[1])
     /\ ~TagTaken(lastOp.input[1], lastOp.input[3]))
    => lastOp.parsed[2] = lastOp.parsed[1]

\* an accepted payload was parsed to the same object in a tagged fence
C15_Witness ==
    /\ lastOp.name = "parseGeminiJsonResponse"
    /\ lastOp.input[3].tag = <<JsonTag>>
    /\ lastOp.input[3].open = <<Newline>>
    /\ lastOp.parsed[1].out = "return"
    /\ lastOp.parsed[2] = lastOp.parsed[1]
    /\ lastOp.parsed[1].value[1].imagePrompt = Str(<<"P">>)

\* C16: no state has a welcome generation and a topic-driven generation
\* outstanding together, and a welcome generation completes on an empty
\* list, so that it drops no post of a topic-driven generation.
C16_WelcomeExcludesTopic ==
    [][ /\ ~(WelcomeTasks' # {} /\ TopicTasks' # {})
        /\ IsWelcomeStep => posts = <<>> ]_vars

\* a topic-driven generation is outstanding after a welcome generation
C16_Witness ==
    /\ TopicTasks # {}
    /\ textCalls.welcome = 1
    /\ posts # <<>>
    /\ posts[Len(posts)].id.prefix = "initial-"

\* the step is a call of loadInitialPost up to its return or its await
IsWelcomeTrigger == lastOp'.name = "loadInitialPost" /\ lastOp'.at = "call"

WelcomePostsIn(ps) == {i \in 1..Len(ps) : ps[i].id.prefix = "initial-"}

\* C17: a call of loadInitialPost made while the post list is non-empty is
\* ignored: no text call, post list and loading flag unchanged; and the
\* list never holds more than one welcome post.
C17_TriggerIgnoredWhenNonEmpty ==
    [][ /\ (IsWelcomeTrigger /\ posts # <<>>) =>
              UNCHANGED <<posts, isLoading, textCalls, tasks>>
        /\ Cardinality(WelcomePostsIn(posts')) <= 1 ]_vars

\* the content holds a non-empty image prompt
CarriesImagePrompt(blogContent) ==
    /\ blogContent.imagePrompt.ty = "str"
    /\ blogContent.imagePrompt.s # <<>>

\* the step is an accepted submit
IsAcceptedSubmit == lastOp' = UiOp("handleGeneratePost", "started")

\* C18: an accepted submit issues exactly one text call; an image call is
\* issued only when that text call has settled with a payload that parsed
\* to content carrying an image prompt, and at most once; after a failure
\* the generation is over and no upstream call is issued.
C18_CallOrderNoRetry ==
    [][ /\ IsAcceptedSubmit =>
              /\ textCalls'.topic = textCalls.topic + 1
              /\ imageCalls' = imageCalls
              /\ \E t \in TopicTasks' \ TopicTasks : t.pc = "text"
        /\ textCalls'.topic # textCalls.topic => IsAcceptedSubmit
        /\ imageCalls' # imageCalls =>
              /\ IsTextStep
              /\ imageCalls' = imageCalls + 1
              /\ lastOp'.input[1].ok
              /\ lastOp'.parsed[1].out = "return"
              /\ CarriesImagePrompt(lastOp'.parsed[1].value[1])
              /\ \E t \in TopicTasks : t.pc = "text" /\
                    \E u \in TopicTasks' : u.id = t.id /\ u.pc = "image"
        /\ IsImageStep =>
              /\ \E t \in TopicTasks : t.pc = "image" /\
                    \A u \in TopicTasks' : u.id # t.id
              /\ UNCHANGED <<textCalls, imageCalls>>
        /\ (lastOp'.name = "handleGeneratePost" /\ lastOp'.outcome = "failed") =>
              /\ UNCHANGED <<textCalls, imageCalls>>
              /\ \E t \in TopicTasks : \A u \in TopicTasks' : u.id # t.id
        /\ imageCalls' <= textCalls'.topic ]_vars

\* a generation has failed at its image call, after one text call and one
\* image call
C18_Witness ==
    /\ lastOp.name = "handleGeneratePost" /\ lastOp.at = "image"
    /\ lastOp.outcome = "failed"
    /\ textCalls.topic = 1
    /\ imageCalls = 1
    /\ TopicTasks = {}

\* the displayed message is the original message wrapped with context
WrapsMessage(shown, original) == shown = <<"Gemini API error: ">> \o original

\* the displayed message is some message wrapped with context
IsWrapped(shown) == shown # <<>> /\ shown[1] = "Gemini API error: "

\* the last step is a topic-driven generation ending on a rejected text call
TextCallRejected ==
    /\ lastOp.name = "handleGeneratePost" /\ lastOp.at = "text"
    /\ ~lastOp.input[1].ok

\* the last step is a topic-driven generation ending in failure
GenerationFailed ==
    lastOp.name = "handleGeneratePost" /\ lastOp.outcome = "failed"

\* C19 as stated: an upstream text error with the invalid-credential marker
\* is shown as the authentication error, every other upstream text error
\* as its message wrapped with context, and a failed generation shows
\* exactly one of the two.
C19_TwoWayClassification ==
    /\ TextCallRejected =>
          LET e == lastOp.input[1].thrown[1]
          IN  /\ GenerationFailed
              /\ IF Includes(e.message, KeyMarker)
                 THEN error = Some(KeyErrorMsg)
                 ELSE error # None /\ WrapsMessage(error[1], e.message)
    /\ GenerationFailed =>
          /\ error # None
          /\ (error[1] = KeyErrorMsg) # IsWrapped(error[1])

\* C19 amended: as above for thrown Error objects; a thrown value that is
\* no Error object is shown as the fixed unknown-error message; a failed
\* generation shows exactly one of the three.
C19_ThreeWayClassification ==
    /\ TextCallRejected =>
          LET e == lastOp.input[1].thrown[1]
          IN  /\ GenerationFailed
              /\ CASE e.isError /\ Includes(e.message, KeyMarker) ->
                        error = Some(KeyErrorMsg)
                   [] e.isError /\ ~Includes(e.message, KeyMarker) ->
                        error # None /\ WrapsMessage(error[1], e.message)
                   [] ~e.isError ->
                        error = Some(UnknownContentErrorMsg)
    /\ GenerationFailed =>
          /\ error # None
          /\ Cardinality({k \in 1..3 :
                CASE k = 1 -> error[1] = KeyErrorMsg
                  [] k = 2 -> IsWrapped(error[1])
                  [] k = 3 -> error[1] = UnknownContentErrorMsg}) = 1

\* a generation has failed on a rejected text call without the marker, and
\* shows the upstream message wrapped
C19_Witness ==
    /\ TextCallRejected
    /\ lastOp.input[1].thrown[1] = NewError(<<"Quota exceeded">>)
    /\ error = Some(<<"Gemini API error: ", "Quota exceeded">>)

\* C20: an accepted submit clears the error; when a generation succeeds the
\* error is null and the topic input is empty; when it fails the topic
\* input is still the submitted topic; no step of handleGeneratePost
\* changes the selected post.
C20_ErrorAndTopicAcrossSubmit ==
    [][ /\ IsAcceptedSubmit => error' = None
        /\ (lastOp'.name = "handleGeneratePost"
                /\ lastOp'.outcome = "succeeded") =>
              /\ error' = None
              /\ topic' = <<>>
        /\ (lastOp'.name = "handleGeneratePost"
                /\ lastOp'.outcome = "failed") =>
              /\ topic' = topic
              /\ \A t \in tasks \ tasks' : topic' = t.topic
              /\ ~SubmitIgnored(topic', isGenerating')
        /\ lastOp'.name = "handleGeneratePost" =>
              selectedPost' = selectedPost ]_vars

\* a second generation has succeeded while a post is selected
C20_Witness ==
    /\ lastOp.name = "handleGeneratePost"
    /\ lastOp.outcome = "succeeded"
    /\ textCalls.topic = 2
    /\ Len(posts) = 2
    /\ selectedPost # None
    /\ error = None
    /\ topic = <<>>

====
